---- MODULE Spec2Model ----
(***************************************************************************)
(* The nav-context-dnd example application of libcosmic:                   *)
(* examples/nav-context-dnd/src/main.rs.                                   *)
(*                                                                         *)
(* The application owns a nav_bar::Model (an ordered list of entries keyed *)
(* by stable ids, with at most one active entry), a dropped_text string    *)
(* and the header title.  The framework delivers messages to App::update   *)
(* and nav selections to App::on_nav_select; each handler is one action.   *)
(***************************************************************************)
EXTENDS Integers, Sequences, FiniteSets, TLC

VARIABLES
    nav_model,     \* App.nav_model: [order, text, data, active, next]
    dropped_text,  \* App.dropped_text
    header_title,  \* the header title set by App::update_title
    printed,       \* the lines the last handler wrote to stdout
    last,          \* the message the last handler received
    pre,           \* nav_model as it was when the last handler was entered
    pre2,          \* order before the previous message, kept while the last
                   \* two messages were NavReorder(a, b, Before) and then
                   \* NavReorder(a, b, After); <<>> otherwise
    session,       \* the drag session of the drag/drop negotiator
    queue,         \* messages produced by widget callbacks, not yet handled
    report,        \* what the negotiator reported for the operation of the
                   \* last step; op "none" when the last step was a handler
    notified       \* the Source* notifications handled since the current
                   \* (or the most recent) session started

app_vars == <<nav_model, dropped_text, header_title, printed, last, pre, pre2>>

dnd_vars == <<session, queue, report, notified>>

vars == <<nav_model, dropped_text, header_title, printed, last, pre, pre2,
          session, queue, report, notified>>

---------------------------------------------------------------------------
(* Bounds and program constants                                            *)

\* number of entries of the input vector built by main
NumPages == 4

\* pointer coordinates reported by ZoneHovered range over 0..MaxCoord
MaxCoord == 0

\* number of distinct text payloads a drop may deliver
NumPayloads == 1

\* the null entity: the value of `active` when no entry is active
NoId == 0

\* every id an event may carry: the ids handed out by init; an id names an
\* absent entry once that entry has been deleted
Ids == 1..NumPages

Relations == {"Before", "After"}

Coords == 0..MaxCoord

Payloads == {IF i = 1 THEN "Hello from source!" ELSE "text" \o ToString(i) : i \in 1..NumPayloads}

---------------------------------------------------------------------------
(* Sequence helpers                                                        *)

Range(s) == {s[i] : i \in 1..Len(s)}

\* s with the element at 0-based index i removed (VecDeque::remove)
RemoveAt(s, i) == SubSeq(s, 1, i) \o SubSeq(s, i + 2, Len(s))

\* s with x inserted so that it ends at 0-based index i (VecDeque::insert)
InsertAt(s, i, x) == SubSeq(s, 1, i) \o <<x>> \o SubSeq(s, i + 1, Len(s))

\* u16 arithmetic of nav_bar positions
U16(x) == x % (2 ^ 16)

---------------------------------------------------------------------------
(* Page and the program input                                              *)

\* Page::as_str
as_str(page) == "Page " \o ToString(page)

\* the input vector of main: (Page, content) for the four pages
Input == [i \in 1..NumPages |-> <<i, "content " \o ToString(i)>>]

---------------------------------------------------------------------------
(* nav_bar::Model (segmented_button::Model), the Item Store and the        *)
(* Position/Move Engine of the specification                               *)

\* Model::default()
ModelDefault == [order |-> <<>>, text |-> <<>>, data |-> <<>>, active |-> NoId, next |-> 1]

\* the ids present in the model
Live(m) == DOMAIN m.text

\* insert(label, payload) -> id: appends at the end with a fresh id
ModelInsert(m, label, payload) ==
    LET id == m.next IN
    [m EXCEPT !.order = Append(m.order, id),
              !.text = [k \in Live(m) \cup {id} |-> IF k = id THEN label ELSE m.text[k]],
              !.data = [k \in Live(m) \cup {id} |-> IF k = id THEN payload ELSE m.data[k]],
              !.next = id + 1]

\* positionOf(id) -> index?: the 0-based index as an Option ({} is None)
ModelPosition(m, id) == {i - 1 : i \in {j \in 1..Len(m.order) : m.order[j] = id}}

\* activate(id): sets the active selection if id is present
ModelActivate(m, id) ==
    IF id \in Live(m) THEN [m EXCEPT !.active = id] ELSE m

\* activate_position(position): activates the entry at that position, if any
ModelActivatePosition(m, position) ==
    IF position < Len(m.order) THEN ModelActivate(m, m.order[position + 1]) ELSE m

\* remove(id): removes the entry if present; a removed active entry leaves
\* the active selection none
ModelRemove(m, id) ==
    IF id \notin Live(m) THEN m
    ELSE LET keep == Live(m) \ {id}
             pos == ModelPosition(m, id) IN
         [m EXCEPT !.order = IF pos = {} THEN m.order
                             ELSE RemoveAt(m.order, CHOOSE p \in pos : TRUE),
                   !.text = [k \in keep |-> m.text[k]],
                   !.data = [k \in keep |-> m.data[k]],
                   !.active = IF m.active = id THEN NoId ELSE m.active]

\* position_set(id, position): moves id to position, an out-of-range
\* position being clamped to len-1
ModelPositionSet(m, id, position) ==
    LET pos == ModelPosition(m, id) IN
    IF pos = {} THEN m
    ELSE LET index == CHOOSE p \in pos : TRUE
             clamped == IF position > Len(m.order) - 1 THEN Len(m.order) - 1 ELSE position IN
         [m EXCEPT !.order = InsertAt(RemoveAt(m.order, index), clamped, id)]

\* reorder(dragged, target, relation) -> bool: removes dragged and reinserts
\* it before/after target, whose index is recomputed after the removal
ModelReorder(m, dragged, target, relation) ==
    IF dragged = target \/ dragged \notin Live(m) \/ target \notin Live(m)
    THEN [ok |-> FALSE, model |-> m]
    ELSE LET di == CHOOSE p \in ModelPosition(m, dragged) : TRUE
             removed == [m EXCEPT !.order = RemoveAt(m.order, di)]
             ti == CHOOSE p \in ModelPosition(removed, target) : TRUE
             at == IF relation = "Before" THEN ti ELSE ti + 1 IN
         [ok |-> TRUE, model |-> [m EXCEPT !.order = InsertAt(removed.order, at, dragged)]]

\* text(id) as an Option
ModelText(m, id) == IF id \in Live(m) THEN {m.text[id]} ELSE {}

\* active_data::<String>() as an Option
ModelActiveData(m) == IF m.active \in Live(m) THEN {m.data[m.active]} ELSE {}

---------------------------------------------------------------------------
(* App: construction and the handlers, as functions of the nav model       *)

\* App::init: inserts the input in order and activates position 0
RECURSIVE InsertAll(_, _)
InsertAll(m, n) ==
    IF n = 0 THEN m
    ELSE ModelInsert(InsertAll(m, n - 1), as_str(Input[n][1]), Input[n][2])

\* init that activates position 1 instead of position 0
InitNavModel_ActivatesSecond == ModelActivatePosition(InsertAll(ModelDefault, Len(Input)), 1)

InitNavModel == ModelActivatePosition(InsertAll(ModelDefault, Len(Input)), 0)

\* App::active_page_title
active_page_title(m) ==
    LET t == ModelText(m, m.active) IN
    IF t = {} THEN "Unknown Page" ELSE CHOOSE x \in t : TRUE

\* on_nav_select that marks the id active without asking the model whether
\* it is present
OnNavSelect_Unchecked(m, id) == [m EXCEPT !.active = id]

\* App::on_nav_select: the model part
OnNavSelect(m, id) == ModelActivate(m, id)

\* Delete that drops the entry's text and data but leaves its slot in order
UpdateDelete_KeepsSlot(m, id) == [ModelRemove(m, id) EXCEPT !.order = m.order]

\* Delete that leaves the active selection on the removed entry
UpdateDelete_KeepsActive(m, id) == [ModelRemove(m, id) EXCEPT !.active = m.active]

\* App::update, NavMenuAction::Delete
UpdateDelete(m, id) == ModelRemove(m, id)

\* MoveUp without the `pos != 0` test: pos - 1 wraps around in u16
UpdateMoveUp_NoZeroTest(m, id) ==
    LET position == ModelPosition(m, id) IN
    IF position = {} THEN m
    ELSE LET pos == CHOOSE p \in position : TRUE IN
         ModelPositionSet(m, id, U16(pos - 1))

\* MoveUp that also makes the moved entry the active one
UpdateMoveUp_Activates(m, id) ==
    LET position == ModelPosition(m, id) IN
    IF position = {} THEN m
    ELSE LET pos == CHOOSE p \in position : TRUE IN
         IF pos # 0 THEN ModelActivate(ModelPositionSet(m, id, U16(pos - 1)), id) ELSE m

\* App::update, NavMenuAction::MoveUp
UpdateMoveUp(m, id) ==
    LET position == ModelPosition(m, id) IN
    IF position = {} THEN m
    ELSE LET pos == CHOOSE p \in position : TRUE IN
         IF pos # 0 THEN ModelPositionSet(m, id, U16(pos - 1)) ELSE m

\* MoveDown that targets pos + 2
UpdateMoveDown_TwoDown(m, id) ==
    LET position == ModelPosition(m, id) IN
    IF position = {} THEN m
    ELSE LET pos == CHOOSE p \in position : TRUE IN
         ModelPositionSet(m, id, U16(pos + 2))

\* App::update, NavMenuAction::MoveDown
UpdateMoveDown(m, id) ==
    LET position == ModelPosition(m, id) IN
    IF position = {} THEN m
    ELSE LET pos == CHOOSE p \in position : TRUE IN
         ModelPositionSet(m, id, U16(pos + 1))

\* the body of the NavReorder handler around a given outcome of reorder
NavReorderOutcome(m, event, r, success) ==
    LET head == <<"NavReorder TRIGGERED: " \o ToString(event),
                  "  Before: " \o ToString(m.order)>> IN
    IF success
    THEN [model |-> r.model,
          printed |-> head \o <<"  Reorder SUCCESS", "  After: " \o ToString(r.model.order)>>]
    ELSE [model |-> r.model, printed |-> head \o <<"  Reorder FAILED">>]

\* NavReorder with the branches of the `if` exchanged
UpdateNavReorder_Inverted(m, event) ==
    LET r == ModelReorder(m, event.dragged, event.target, event.position) IN
    NavReorderOutcome(m, event, r, ~r.ok)

\* NavReorder that passes target and dragged in the wrong order
UpdateNavReorder_Swapped(m, event) ==
    LET r == ModelReorder(m, event.target, event.dragged, event.position) IN
    NavReorderOutcome(m, event, r, r.ok)

\* NavReorder that exchanges Before and After
UpdateNavReorder_Flipped(m, event) ==
    LET r == ModelReorder(m, event.dragged, event.target,
                          IF event.position = "Before" THEN "After" ELSE "Before") IN
    NavReorderOutcome(m, event, r, r.ok)

\* NavReorder that ignores the relation and always inserts before target
UpdateNavReorder_AlwaysBefore(m, event) ==
    LET r == ModelReorder(m, event.dragged, event.target, "Before") IN
    NavReorderOutcome(m, event, r, r.ok)

\* App::update, Message::NavReorder: the new model and the lines printed
UpdateNavReorder(m, event) ==
    LET r == ModelReorder(m, event.dragged, event.target, event.position) IN
    NavReorderOutcome(m, event, r, r.ok)

\* the view's page content: active_data().map_or("No page selected", ..)
page_content(m) ==
    LET d == ModelActiveData(m) IN
    IF d = {} THEN "No page selected" ELSE CHOOSE x \in d : TRUE

---------------------------------------------------------------------------
(* Drag and drop: the types and closures of main.rs                        *)

\* the type tags a destination may ask a source for
Tags == {"text/plain", "application/x-cosmic-nav-item", "text/uri-list"}

\* str::as_bytes: the UTF-8 encoding of a string
StrBytes(str) == [utf8 |-> TRUE, text |-> str]

\* Vec::new(): no bytes
EmptyBytes == [utf8 |-> TRUE, text |-> ""]

\* String::from_utf8(bytes).unwrap_or_default()
FromUtf8OrDefault(bytes) == IF bytes.utf8 THEN bytes.text ELSE ""

NAV_ITEM_MIME == "application/x-cosmic-nav-item"

\* <NavItemMime as AllowedMimeTypes>::allowed
NavItemMime_allowed == {NAV_ITEM_MIME}

\* <DndText as AllowedMimeTypes>::allowed
DndText_allowed == {"text/plain"}

\* a text source that also advertises a tag it cannot serialize
DndText_available_Extra(self) == {"text/plain", "text/uri-list"}

\* <DndText as AsMimeTypes>::available
DndText_available(self) == {"text/plain"}

\* <DndText as AsMimeTypes>::as_bytes, as an Option
DndText_as_bytes(self, mime_type) ==
    IF mime_type = "text/plain" THEN {StrBytes(self)} ELSE {}

\* <DndText as TryFrom<(Vec<u8>, String)>>::try_from
DndText_try_from(value) == FromUtf8OrDefault(value[1])

\* the drag_content closure of the dnd_source in view
drag_content == "Hello from source!"

\* enable_tab_drag that gives nav items the public text tag
enable_tab_drag_TextPlain(id) == {[mime |-> "text/plain", bytes |-> EmptyBytes]}

\* the enable_tab_drag closure of nav_bar: the payload of a dragged nav item
enable_tab_drag(id) == {[mime |-> NAV_ITEM_MIME, bytes |-> EmptyBytes]}

\* the on_dnd_drop closure of nav_bar: cosmic::Action::None, no message
on_dnd_drop(id, data) == <<>>

\* the on_reorder closure of nav_bar
on_reorder(event) ==
    <<[kind |-> "NavReorder", dragged |-> event.dragged, target |-> event.target,
       position |-> event.position]>>

\* the on_start, on_finish and on_cancel messages of the dnd_source in view
source_on_start == <<[kind |-> "SourceStarted"]>>
source_on_finish == <<[kind |-> "SourceFinished"]>>
source_on_cancel == <<[kind |-> "SourceCancelled"]>>

\* a data closure that treats missing data as an empty drop
zone_on_data_EmptyDrop(data) ==
    IF data # {} THEN <<[kind |-> "ZoneDropped", data |-> CHOOSE d \in data : TRUE]>>
    ELSE <<[kind |-> "ZoneDropped", data |-> ""]>>

\* the data closure of the drop zone: |data, _action| ...
zone_on_data(data) ==
    IF data # {} THEN <<[kind |-> "ZoneDropped", data |-> CHOOSE d \in data : TRUE]>>
    ELSE <<[kind |-> "SourceCancelled"]>>

\* the on_drop and on_motion closures of the drop zone
zone_on_drop == <<[kind |-> "SourceFinished"]>>
zone_on_motion(x, y) == <<[kind |-> "ZoneHovered", x |-> x, y |-> y]>>

---------------------------------------------------------------------------
(* The Drag/Drop Negotiator of the specification (dnd_source,              *)
(* dnd_destination and the nav bar's drag support)                         *)

\* no drag gesture is in progress
NoSession ==
    [state |-> "Idle", source |-> "none", id |-> NoId, available |-> {},
     dest |-> "none", data |-> {}]

NoReport == [op |-> "none", result |-> "Ok"]

\* a negotiator that starts a session over an active one
CanStart_Always(s) == TRUE

\* startDrag is accepted only when no session is active
CanStart(s) == s.state = "Idle"

\* a negotiator that takes session operations in any state
InSession_Always(s) == TRUE

\* hover, requestPayload, drop and cancel are accepted only while Dragging
InSession(s) == s.state = "Dragging"

\* the session a source starts with the tags it advertises
StartedSession(source, id, available) ==
    [state |-> "Dragging", source |-> source, id |-> id, available |-> available,
     dest |-> "none", data |-> {}]

\* the bytes the source of session s serializes for tag, as an Option
SourceBytes(s, tag) ==
    IF s.source = "text" THEN DndText_as_bytes(drag_content, tag)
    ELSE {p.bytes : p \in {q \in enable_tab_drag(s.id) : q.mime = tag}}

\* requestPayload(tag): fails when tag is not advertised, otherwise the
\* source serializes
RequestedPayload(s, tag) ==
    LET bytes == IF tag \in s.available THEN SourceBytes(s, tag) ELSE {} IN
    [op |-> "requestPayload", tag |-> tag, bytes |-> bytes,
     result |-> IF bytes = {} THEN "TypeMismatch" ELSE "Ok"]

\* the data dnd_destination_for_data::<DndText> hands to its closure: the
\* payload of a tag both sides know, converted; none otherwise
ZoneData(s) ==
    LET accepted == DndText_allowed \cap s.available IN
    IF accepted = {} THEN {}
    ELSE LET tag == CHOOSE t \in accepted : TRUE
             bytes == SourceBytes(s, tag) IN
         IF bytes = {} THEN {}
         ELSE {DndText_try_from(<<CHOOSE b \in bytes : TRUE, tag>>)}

\* the source-side callbacks: only the dnd_source of view has any
SourceFinish(s) == IF s.source = "text" THEN source_on_finish ELSE <<>>
SourceCancel(s) == IF s.source = "text" THEN source_on_cancel ELSE <<>>

---------------------------------------------------------------------------
(* The state machine                                                       *)

Init ==
    /\ nav_model = InitNavModel
    /\ dropped_text = "Drop something here!"
    /\ header_title = active_page_title(InitNavModel)
    /\ printed = <<>>
    /\ last = [kind |-> "Init"]
    /\ pre = InitNavModel
    /\ pre2 = <<>>
    /\ session = NoSession
    /\ queue = <<>>
    /\ report = NoReport
    /\ notified = <<>>

\* App::on_nav_select(id)
NavSelect(id) ==
    /\ nav_model' = OnNavSelect(nav_model, id)
    /\ header_title' = active_page_title(nav_model')
    /\ printed' = <<>>
    /\ last' = [kind |-> "NavSelect", id |-> id]
    /\ pre' = nav_model
    /\ pre2' = <<>>
    /\ UNCHANGED dropped_text
    /\ UNCHANGED dnd_vars

\* App::update(Message::NavMenuAction(NavMenuAction::Delete(id)))
Delete(id) ==
    /\ nav_model' = UpdateDelete(nav_model, id)
    /\ printed' = <<>>
    /\ last' = [kind |-> "Delete", id |-> id]
    /\ pre' = nav_model
    /\ pre2' = <<>>
    /\ UNCHANGED <<dropped_text, header_title>>
    /\ UNCHANGED dnd_vars

\* App::update(Message::NavMenuAction(NavMenuAction::MoveUp(id)))
MoveUp(id) ==
    /\ nav_model' = UpdateMoveUp(nav_model, id)
    /\ printed' = <<>>
    /\ last' = [kind |-> "MoveUp", id |-> id]
    /\ pre' = nav_model
    /\ pre2' = <<>>
    /\ UNCHANGED <<dropped_text, header_title>>
    /\ UNCHANGED dnd_vars

\* App::update(Message::NavMenuAction(NavMenuAction::MoveDown(id)))
MoveDown(id) ==
    /\ nav_model' = UpdateMoveDown(nav_model, id)
    /\ printed' = <<>>
    /\ last' = [kind |-> "MoveDown", id |-> id]
    /\ pre' = nav_model
    /\ pre2' = <<>>
    /\ UNCHANGED <<dropped_text, header_title>>
    /\ UNCHANGED dnd_vars

\* App::update(Message::NavReorder(event))
HandleNavReorder(dragged, target, position) ==
    LET event == [dragged |-> dragged, target |-> target, position |-> position]
        r == UpdateNavReorder(nav_model, event) IN
    /\ nav_model' = r.model
    /\ printed' = r.printed
    /\ last' = [kind |-> "NavReorder", dragged |-> dragged, target |-> target,
                position |-> position]
    /\ pre' = nav_model
    /\ pre2' = IF /\ position = "After"
                  /\ last = [kind |-> "NavReorder", dragged |-> dragged,
                             target |-> target, position |-> "Before"]
               THEN pre.order ELSE <<>>
    /\ UNCHANGED <<dropped_text, header_title>>

\* App::update(Message::NavReorder(event)), whenever the message arrives
NavReorder(dragged, target, position) ==
    HandleNavReorder(dragged, target, position) /\ UNCHANGED dnd_vars

\* App::update(Message::SourceStarted)
HandleSourceStarted ==
    /\ printed' = <<"Source started">>
    /\ last' = [kind |-> "SourceStarted"]
    /\ pre' = nav_model
    /\ pre2' = <<>>
    /\ UNCHANGED <<nav_model, dropped_text, header_title>>

\* App::update(Message::SourceStarted), whenever the message arrives
SourceStarted ==
    HandleSourceStarted /\ UNCHANGED dnd_vars

\* App::update(Message::SourceFinished)
HandleSourceFinished ==
    /\ printed' = <<"Source finished">>
    /\ last' = [kind |-> "SourceFinished"]
    /\ pre' = nav_model
    /\ pre2' = <<>>
    /\ UNCHANGED <<nav_model, dropped_text, header_title>>

\* App::update(Message::SourceFinished), whenever the message arrives
SourceFinished ==
    HandleSourceFinished /\ UNCHANGED dnd_vars

\* a SourceCancelled handler that puts the drop zone's first text back
HandleSourceCancelled_ClearsText ==
    /\ dropped_text' = "Drop something here!"
    /\ printed' = <<"Source cancelled">>
    /\ last' = [kind |-> "SourceCancelled"]
    /\ pre' = nav_model
    /\ pre2' = <<>>
    /\ UNCHANGED <<nav_model, header_title>>

\* App::update(Message::SourceCancelled)
HandleSourceCancelled ==
    /\ printed' = <<"Source cancelled">>
    /\ last' = [kind |-> "SourceCancelled"]
    /\ pre' = nav_model
    /\ pre2' = <<>>
    /\ UNCHANGED <<nav_model, dropped_text, header_title>>

\* App::update(Message::SourceCancelled), whenever the message arrives
SourceCancelled ==
    HandleSourceCancelled /\ UNCHANGED dnd_vars

\* App::update(Message::ZoneHovered(x, y))
HandleZoneHovered(x, y) ==
    /\ printed' = <<"Zone hovered at " \o ToString(x) \o ", " \o ToString(y)>>
    /\ last' = [kind |-> "ZoneHovered", x |-> x, y |-> y]
    /\ pre' = nav_model
    /\ pre2' = <<>>
    /\ UNCHANGED <<nav_model, dropped_text, header_title>>

\* App::update(Message::ZoneHovered(x, y)), whenever the message arrives
ZoneHovered(x, y) ==
    HandleZoneHovered(x, y) /\ UNCHANGED dnd_vars

\* App::update(Message::ZoneDropped(data))
HandleZoneDropped(data) ==
    /\ dropped_text' = "Dropped: " \o data
    /\ printed' = <<"Dropped: " \o data>>
    /\ last' = [kind |-> "ZoneDropped", data |-> data]
    /\ pre' = nav_model
    /\ pre2' = <<>>
    /\ UNCHANGED <<nav_model, header_title>>

\* App::update(Message::ZoneDropped(data)), whenever the message arrives
ZoneDropped(data) ==
    HandleZoneDropped(data) /\ UNCHANGED dnd_vars

Next ==
    \/ \E id \in Ids : NavSelect(id)
    \/ \E id \in Ids : Delete(id)
    \/ \E id \in Ids : MoveUp(id)
    \/ \E id \in Ids : MoveDown(id)
    \/ \E dragged \in Ids, target \in Ids, position \in Relations :
          NavReorder(dragged, target, position)
    \/ SourceStarted
    \/ SourceFinished
    \/ SourceCancelled
    \/ \E x \in Coords, y \in Coords : ZoneHovered(x, y)
    \/ \E data \in Payloads : ZoneDropped(data)

Spec == Init /\ [][Next]_vars

---------------------------------------------------------------------------
(* The application behind the negotiator: drag gestures produce the        *)
(* messages, and update handles them in the order they were produced       *)
(* before the next event is taken.  Spec above delivers every message at   *)
(* any time, which includes all the deliveries below.                      *)

\* a step of the negotiator handles no message
EventFrame(lines) ==
    /\ printed' = lines
    /\ last' = [kind |-> "none"]
    /\ pre' = nav_model
    /\ pre2' = <<>>
    /\ UNCHANGED <<nav_model, dropped_text, header_title>>

\* the negotiator refuses an operation
Refused(op) ==
    /\ report' = [op |-> op, result |-> "InvalidOperation"]
    /\ UNCHANGED <<session, queue, notified>>

\* startDrag from the dnd_source of view
StartDragText ==
    /\ queue = <<>>
    /\ IF CanStart(session)
       THEN /\ session' = StartedSession("text", NoId, DndText_available(drag_content))
            /\ queue' = source_on_start
            /\ notified' = <<>>
            /\ report' = [op |-> "startDrag", result |-> "Ok"]
       ELSE Refused("startDrag")
    /\ EventFrame(<<>>)

\* startDrag from the nav item id
StartDragNav(id) ==
    /\ queue = <<>>
    /\ id \in Live(nav_model)
    /\ IF CanStart(session)
       THEN /\ session' = StartedSession("nav", id, {p.mime : p \in enable_tab_drag(id)})
            /\ queue' = <<>>
            /\ notified' = <<>>
            /\ report' = [op |-> "startDrag", result |-> "Ok"]
            /\ EventFrame(<<"Creating drag payload for " \o ToString(id)>>)
       ELSE Refused("startDrag") /\ EventFrame(<<>>)

\* hover(x, y) over the drop zone
Hover(x, y) ==
    /\ queue = <<>>
    /\ IF InSession(session)
       THEN /\ queue' = zone_on_motion(x, y)
            /\ report' = [op |-> "hover", result |-> "Ok"]
            /\ UNCHANGED <<session, notified>>
       ELSE Refused("hover")
    /\ EventFrame(<<>>)

\* requestPayload(tag)
RequestPayload(tag) ==
    /\ queue = <<>>
    /\ IF InSession(session)
       THEN /\ report' = RequestedPayload(session, tag)
            /\ UNCHANGED <<session, queue, notified>>
       ELSE Refused("requestPayload")
    /\ EventFrame(<<>>)

\* drop on the drop zone
DropOnZone ==
    /\ queue = <<>>
    /\ IF InSession(session)
       THEN LET data == ZoneData(session) IN
            /\ session' = [session EXCEPT !.state = "Dropped", !.dest = "zone",
                                          !.data = data]
            /\ queue' = zone_on_drop \o zone_on_data(data) \o SourceFinish(session)
            /\ report' = [op |-> "drop",
                          result |-> IF data = {} THEN "TypeMismatch" ELSE "Ok"]
            /\ UNCHANGED notified
       ELSE Refused("drop")
    /\ EventFrame(<<>>)

\* drop on the nav bar, before or after the item target
DropOnNav(target, relation) ==
    /\ queue = <<>>
    /\ target \in Live(nav_model)
    /\ IF InSession(session)
       THEN LET reorder == NavItemMime_allowed \cap session.available # {}
                event == [dragged |-> session.id, target |-> target,
                          position |-> relation] IN
            /\ session' = [session EXCEPT !.state = "Dropped", !.dest = "nav"]
            /\ queue' = (IF reorder THEN on_reorder(event) ELSE on_dnd_drop(target, {}))
                           \o SourceFinish(session)
            /\ report' = [op |-> "drop",
                          result |-> IF reorder THEN "Ok" ELSE "TypeMismatch"]
            /\ UNCHANGED notified
       ELSE Refused("drop")
    /\ EventFrame(<<>>)

\* cancel: no destination accepts, or the source aborts
Cancel ==
    /\ queue = <<>>
    /\ IF InSession(session)
       THEN /\ session' = [session EXCEPT !.state = "Cancelled"]
            /\ queue' = SourceCancel(session)
            /\ report' = [op |-> "cancel", result |-> "Ok"]
            /\ UNCHANGED notified
       ELSE Refused("cancel")
    /\ EventFrame(<<>>)

\* the finished session is destroyed once its messages are handled
SessionEnd ==
    /\ queue = <<>>
    /\ session.state \in {"Dropped", "Cancelled"}
    /\ session' = NoSession
    /\ report' = [op |-> "end", result |-> "Ok"]
    /\ UNCHANGED <<queue, notified>>
    /\ EventFrame(<<>>)

\* the runtime takes the next message off the queue
Delivered(kind) ==
    /\ queue # <<>>
    /\ Head(queue).kind = kind
    /\ queue' = Tail(queue)
    /\ notified' = IF kind \in {"SourceStarted", "SourceFinished", "SourceCancelled"}
                   THEN Append(notified, kind) ELSE notified
    /\ report' = NoReport
    /\ UNCHANGED session

DeliverNavReorder ==
    /\ Delivered("NavReorder")
    /\ HandleNavReorder(Head(queue).dragged, Head(queue).target, Head(queue).position)

DeliverSourceStarted == Delivered("SourceStarted") /\ HandleSourceStarted

DeliverSourceFinished == Delivered("SourceFinished") /\ HandleSourceFinished

DeliverSourceCancelled == Delivered("SourceCancelled") /\ HandleSourceCancelled

DeliverZoneHovered ==
    /\ Delivered("ZoneHovered")
    /\ HandleZoneHovered(Head(queue).x, Head(queue).y)

DeliverZoneDropped ==
    /\ Delivered("ZoneDropped")
    /\ HandleZoneDropped(Head(queue).data)

DndNext ==
    \/ StartDragText
    \/ \E id \in Ids : StartDragNav(id)
    \/ \E x \in Coords, y \in Coords : Hover(x, y)
    \/ \E tag \in Tags : RequestPayload(tag)
    \/ DropOnZone
    \/ \E target \in Ids, relation \in Relations : DropOnNav(target, relation)
    \/ Cancel
    \/ SessionEnd
    \/ DeliverNavReorder
    \/ DeliverSourceStarted
    \/ DeliverSourceFinished
    \/ DeliverSourceCancelled
    \/ DeliverZoneHovered
    \/ DeliverZoneDropped

DndSpec == Init /\ [][DndNext]_vars

---------------------------------------------------------------------------
(* The whole application: the context menu and the nav selection are       *)
(* driven by the pointer, which a drag gesture holds, so their messages    *)
(* arrive between gestures.                                                *)

BetweenGestures == queue = <<>> /\ session.state = "Idle"

MenuNavSelect(id) == BetweenGestures /\ NavSelect(id)

MenuDelete(id) == BetweenGestures /\ Delete(id)

MenuMoveUp(id) == BetweenGestures /\ MoveUp(id)

MenuMoveDown(id) == BetweenGestures /\ MoveDown(id)

MenuNext ==
    \/ \E id \in Ids : MenuNavSelect(id)
    \/ \E id \in Ids : MenuDelete(id)
    \/ \E id \in Ids : MenuMoveUp(id)
    \/ \E id \in Ids : MenuMoveDown(id)

AppNext == DndNext \/ MenuNext

AppSpec == Init /\ [][AppNext]_vars

---------------------------------------------------------------------------
(* Vocabulary of the properties                                            *)

order == nav_model.order

\* 1-based index of x in s
IndexOf(s, x) == CHOOSE i \in 1..Len(s) : s[i] = x

\* s without every occurrence of x
Without(s, x) == SelectSeq(s, LAMBDA e : e # x)

\* s with the elements at i and j exchanged
Swapped(s, i, j) ==
    [k \in 1..Len(s) |-> IF k = i THEN s[j] ELSE IF k = j THEN s[i] ELSE s[k]]

\* the labels of the entries, in order
Labels(m) == [i \in 1..Len(m.order) |-> m.text[m.order[i]]]

\* everything of the model but its order
SameEntries(m, n) ==
    /\ m.text = n.text
    /\ m.data = n.data
    /\ m.active = n.active

ReportsSuccess == "  Reorder SUCCESS" \in Range(printed)
ReportsFailure == "  Reorder FAILED" \in Range(printed)

\* the last message was a NavReorder of two distinct ids that were present
ReorderOfPresent ==
    /\ last.kind = "NavReorder"
    /\ last.dragged # last.target
    /\ last.dragged \in Live(pre)
    /\ last.target \in Live(pre)

---------------------------------------------------------------------------
(* C1: after init and any sequence of events the order is a duplicate-free *)
(* sequence of exactly the live ids, positionOf maps the live ids          *)
(* one-to-one onto 0..len-1, and no handler makes an absent id present.    *)
C1_OrderWellFormed ==
    /\ \A i, j \in 1..Len(order) : i # j => order[i] # order[j]
    /\ Range(order) = Live(nav_model)
    /\ \A id \in Live(nav_model) : Cardinality(ModelPosition(nav_model, id)) = 1
    /\ \A id \in Ids \ Live(nav_model) : ModelPosition(nav_model, id) = {}
    /\ UNION {ModelPosition(nav_model, id) : id \in Live(nav_model)} = 0..(Len(order) - 1)
    /\ \A a, b \in Live(nav_model) :
          a # b => ModelPosition(nav_model, a) # ModelPosition(nav_model, b)
    /\ Live(nav_model) \subseteq Live(pre)
    /\ Live(nav_model) \subseteq 1..(nav_model.next - 1)

\* entries were deleted and the rest was reordered
C1_Witness ==
    /\ Len(order) = 2
    /\ last.kind = "NavReorder"
    /\ order # pre.order

(* C2 as stated: exactly one entry is active unless the model is empty,    *)
(* and the active id is present.                                           *)
C2_ExactlyOneActive ==
    /\ (Live(nav_model) = {}) <=> (nav_model.active = NoId)
    /\ nav_model.active # NoId => nav_model.active \in Live(nav_model)

(* C2: at most one entry is active: the active id is none or a present id, *)
(* it is none when the model is empty, and a selection is lost only by     *)
(* the Delete of the active entry.                                         *)
C2_AtMostOneActive ==
    /\ nav_model.active \in Live(nav_model) \cup {NoId}
    /\ Live(nav_model) = {} => nav_model.active = NoId
    /\ (nav_model.active = NoId /\ pre.active # NoId) =>
          (last.kind = "Delete" /\ last.id = pre.active)
    /\ (nav_model.active = NoId /\ Live(nav_model) # {}) => Len(order) < NumPages

\* the active entry was deleted and other entries remain
C2_Witness ==
    /\ last.kind = "Delete"
    /\ last.id = pre.active
    /\ nav_model.active = NoId
    /\ Live(nav_model) # {}

(* C3: Delete(id) of a present id removes exactly that entry and keeps the *)
(* order of the others; the selection becomes none if the entry was active *)
(* (the view shows "No page selected") and is unchanged otherwise.         *)
C3_DeleteRemovesExactly ==
    (last.kind = "Delete" /\ last.id \in Live(pre)) =>
        /\ order = Without(pre.order, last.id)
        /\ Len(order) = Len(pre.order) - 1
        /\ Live(nav_model) = Live(pre) \ {last.id}
        /\ \A k \in Live(nav_model) :
              nav_model.text[k] = pre.text[k] /\ nav_model.data[k] = pre.data[k]
        /\ pre.active = last.id =>
              nav_model.active = NoId /\ page_content(nav_model) = "No page selected"
        /\ pre.active # last.id => nav_model.active = pre.active

\* the active entry, in the middle of the list, was deleted
C3_Witness ==
    /\ last.kind = "Delete"
    /\ last.id \in Live(pre)
    /\ pre.active = last.id
    /\ Len(pre.order) >= 3
    /\ pre.order[2] = last.id

(* C4: an event that names an absent id leaves the model (order, entries,  *)
(* active selection) unchanged, and a reorder with an absent id reports    *)
(* failure.                                                                *)
C4_AbsentIdIsNoOp ==
    /\ (last.kind \in {"Delete", "MoveUp", "MoveDown", "NavSelect"}
          /\ last.id \notin Live(pre)) => nav_model = pre
    /\ (last.kind = "NavReorder"
          /\ (last.dragged \notin Live(pre) \/ last.target \notin Live(pre))) =>
          (nav_model = pre /\ ReportsFailure /\ ~ReportsSuccess)

\* a nav-select of a deleted id arrived while another entry was active
C4_Witness ==
    /\ last.kind = "NavSelect"
    /\ last.id \notin Live(pre)
    /\ pre.active # NoId

(* C5: MoveUp(id) of a present id at index i > 0 swaps it with the entry   *)
(* at i-1 and changes no other position; at index 0 it is a no-op.         *)
C5_MoveUpSwapsWithPrevious ==
    (last.kind = "MoveUp" /\ last.id \in Live(pre)) =>
        LET i == IndexOf(pre.order, last.id) IN
        /\ SameEntries(nav_model, pre)
        /\ i > 1 => order = Swapped(pre.order, i, i - 1)
        /\ i = 1 => order = pre.order

\* the first entry was moved up
C5_Witness ==
    /\ last.kind = "MoveUp"
    /\ last.id \in Live(pre)
    /\ pre.order[1] = last.id
    /\ Len(pre.order) >= 2

(* C6: MoveDown(id) of a present id at index i < len-1 swaps it with the   *)
(* entry at i+1 and changes no other position; at index len-1 it is a      *)
(* no-op, the out-of-range target len being clamped to len-1.              *)
C6_MoveDownSwapsWithNext ==
    (last.kind = "MoveDown" /\ last.id \in Live(pre)) =>
        LET i == IndexOf(pre.order, last.id) IN
        /\ SameEntries(nav_model, pre)
        /\ i < Len(pre.order) => order = Swapped(pre.order, i, i + 1)
        /\ i = Len(pre.order) => order = pre.order

\* an entry with two entries below it was moved down
C6_Witness ==
    /\ last.kind = "MoveDown"
    /\ last.id \in Live(pre)
    /\ Len(pre.order) >= 3
    /\ pre.order[1] = last.id
    /\ order[2] = last.id

(* C7: a NavReorder whose dragged id equals its target id fails, for       *)
(* either relation and every model, and leaves the model unchanged.        *)
C7_SelfReorderFails ==
    (last.kind = "NavReorder" /\ last.dragged = last.target) =>
        /\ nav_model = pre
        /\ ReportsFailure
        /\ ~ReportsSuccess

\* a present entry was dropped on itself
C7_Witness ==
    /\ last.kind = "NavReorder"
    /\ last.dragged = last.target
    /\ last.dragged \in Live(pre)
    /\ Len(pre.order) >= 2

(* C8: a NavReorder of distinct present ids succeeds; the new order is the *)
(* old one with dragged removed and re-inserted immediately before         *)
(* (Before) or immediately after (After) target, the other entries keeping *)
(* their relative order.  From [Page 1, Page 2, Page 3, Page 4], Page 3    *)
(* Before Page 1 gives [Page 3, Page 1, Page 2, Page 4].                   *)
C8_ReorderPlacesDragged ==
    ReorderOfPresent =>
        /\ ReportsSuccess
        /\ ~ReportsFailure
        /\ SameEntries(nav_model, pre)
        /\ Len(order) = Len(pre.order)
        /\ Without(order, last.dragged) = Without(pre.order, last.dragged)
        /\ last.position = "Before" =>
              IndexOf(order, last.dragged) = IndexOf(order, last.target) - 1
        /\ last.position = "After" =>
              IndexOf(order, last.dragged) = IndexOf(order, last.target) + 1
        /\ (/\ Labels(pre) = <<"Page 1", "Page 2", "Page 3", "Page 4">>
            /\ pre.text[last.dragged] = "Page 3"
            /\ pre.text[last.target] = "Page 1"
            /\ last.position = "Before") =>
              Labels(nav_model) = <<"Page 3", "Page 1", "Page 2", "Page 4">>

\* Page 3 was dropped before Page 1 in the initial order
C8_Witness ==
    /\ ReorderOfPresent
    /\ Labels(pre) = <<"Page 1", "Page 2", "Page 3", "Page 4">>
    /\ pre.text[last.dragged] = "Page 3"
    /\ pre.text[last.target] = "Page 1"
    /\ last.position = "Before"
    /\ Labels(nav_model) = <<"Page 3", "Page 1", "Page 2", "Page 4">>

(* C9: when dragged already is immediately before target (Before) or       *)
(* immediately after target (After) the NavReorder leaves the order        *)
(* unchanged and reports success; the same successful NavReorder applied   *)
(* once more does not change the order.                                    *)
C9_ReorderIdempotent ==
    ReorderOfPresent =>
        LET d == IndexOf(pre.order, last.dragged)
            t == IndexOf(pre.order, last.target)
            event == [dragged |-> last.dragged, target |-> last.target,
                      position |-> last.position]
            again == UpdateNavReorder(nav_model, event) IN
        /\ ((last.position = "Before" /\ d = t - 1)
              \/ (last.position = "After" /\ d = t + 1)) =>
              (order = pre.order /\ ReportsSuccess)
        /\ ReportsSuccess =>
              (again.model.order = order /\ "  Reorder SUCCESS" \in Range(again.printed))

\* an entry was dropped before the entry it already preceded
C9_Witness ==
    /\ ReorderOfPresent
    /\ last.position = "Before"
    /\ IndexOf(pre.order, last.dragged) = IndexOf(pre.order, last.target) - 1
    /\ order = pre.order
    /\ Len(order) >= 3

(* C10: for distinct present a and b, reorder(a, b, Before) followed       *)
(* immediately by reorder(a, b, After) leaves a immediately after b and    *)
(* the other entries in their original relative order; when a started      *)
(* immediately after b the whole original order is restored.               *)
C10_BeforeThenAfterRoundTrip ==
    (ReorderOfPresent /\ pre2 # <<>>) =>
        LET a == last.dragged
            b == last.target IN
        /\ IndexOf(order, a) = IndexOf(order, b) + 1
        /\ Without(order, a) = Without(pre2, a)
        /\ Len(order) = Len(pre2)
        /\ IndexOf(pre2, a) = IndexOf(pre2, b) + 1 => order = pre2

\* a started immediately after b; the first step moved it, the second
\* moved it back
C10_Witness ==
    /\ ReorderOfPresent
    /\ pre2 # <<>>
    /\ Len(pre2) >= 3
    /\ IndexOf(pre2, last.dragged) = IndexOf(pre2, last.target) + 1
    /\ pre.order # pre2
    /\ order = pre2

(* C11: MoveUp, MoveDown and NavReorder, successful or failed, only        *)
(* permute positions: the set of ids, every label and payload and the      *)
(* active id are as before, so the page content shown does not change.     *)
C11_MovesOnlyPermute ==
    (last.kind \in {"MoveUp", "MoveDown", "NavReorder"}) =>
        /\ Live(nav_model) = Live(pre)
        /\ \A k \in Live(pre) :
              nav_model.text[k] = pre.text[k] /\ nav_model.data[k] = pre.data[k]
        /\ nav_model.active = pre.active
        /\ Len(order) = Len(pre.order)
        /\ Range(order) = Range(pre.order)
        /\ page_content(nav_model) = page_content(pre)
        /\ active_page_title(nav_model) = active_page_title(pre)

\* an entry that is not the active one was moved up past it
C11_Witness ==
    /\ last.kind = "MoveUp"
    /\ last.id \in Live(pre)
    /\ order # pre.order
    /\ pre.active # NoId
    /\ pre.active # last.id
    /\ page_content(nav_model) = pre.data[pre.active]

(* C18: after init with Page 1..Page 4 inserted in order, positionOf gives *)
(* 0, 1, 2, 3, the entry at position 0 is active and the active label and  *)
(* the header title are "Page 1"; after a nav-select of a present id the   *)
(* active label is that entry's label.                                     *)
C18_InitAndSelectLabels ==
    /\ last.kind = "Init" =>
          /\ Labels(nav_model) = <<"Page 1", "Page 2", "Page 3", "Page 4">>
          /\ \A i \in 1..4 : ModelPosition(nav_model, order[i]) = {i - 1}
          /\ nav_model.active = order[1]
          /\ active_page_title(nav_model) = "Page 1"
          /\ header_title = "Page 1"
    /\ (last.kind = "NavSelect" /\ last.id \in Live(pre)) =>
          /\ nav_model.active = last.id
          /\ active_page_title(nav_model) = pre.text[last.id]
          /\ header_title = pre.text[last.id]

\* Page 3 was selected while another entry was active
C18_Witness ==
    /\ last.kind = "NavSelect"
    /\ last.id \in Live(pre)
    /\ pre.active # last.id
    /\ pre.text[last.id] = "Page 3"
    /\ header_title = "Page 3"

(* C20: in every reachable state the header title is the label of the      *)
(* active entry, or "Unknown Page" when no entry is active.                *)
C20_TitleMatchesActive ==
    header_title = active_page_title(nav_model)

---------------------------------------------------------------------------
(* Vocabulary of the drag and drop properties                              *)

InQueue(kind) == \E i \in 1..Len(queue) : queue[i].kind = kind

\* the number of SourceFinished and SourceCancelled notifications handled
\* for the current session
EndNotifications ==
    Len(SelectSeq(notified, LAMBDA k : k \in {"SourceFinished", "SourceCancelled"}))

(* C12: while Dragging, requestPayload(tag) returns the serialized payload *)
(* exactly when tag is advertised by the source (for the text source only  *)
(* "text/plain"); otherwise it fails with TypeMismatch, produces no bytes  *)
(* and the session stays Dragging with the tags it advertised.             *)
C12_RequestPayload ==
    (report.op = "requestPayload" /\ report.result # "InvalidOperation") =>
        /\ session.state = "Dragging"
        /\ (report.bytes # {}) <=> (report.tag \in session.available)
        /\ report.tag \in session.available => report.result = "Ok"
        /\ report.tag \notin session.available =>
              (report.result = "TypeMismatch" /\ report.bytes = {})
        /\ session.source = "text" =>
              /\ session.available = {"text/plain"}
              /\ report.tag = "text/plain" =>
                    report.bytes = {[utf8 |-> TRUE, text |-> "Hello from source!"]}
        /\ session.source = "nav" => session.available = {NAV_ITEM_MIME}

\* the text source was asked for the nav item tag
C12_Witness ==
    /\ report.op = "requestPayload"
    /\ report.result = "TypeMismatch"
    /\ report.tag = NAV_ITEM_MIME
    /\ session.state = "Dragging"
    /\ session.source = "text"

(* C13: a drop that arrives while no session is active is reported as      *)
(* InvalidOperation and changes nothing: dropped_text, the nav model, the  *)
(* title and the session are as before and no message is produced.         *)
C13_DropWhenIdle ==
    [][(report'.op = "drop" /\ session.state = "Idle") =>
          /\ report'.result = "InvalidOperation"
          /\ UNCHANGED <<nav_model, dropped_text, header_title, session, queue,
                         notified>>
          /\ queue' = <<>>]_vars

\* a drop was refused with no session active, after an earlier drop changed
\* the text
C13_Witness ==
    /\ report.op = "drop"
    /\ report.result = "InvalidOperation"
    /\ session.state = "Idle"
    /\ queue = <<>>
    /\ dropped_text = "Dropped: Hello from source!"

(* C14: a startDrag that arrives while a session is active is rejected and *)
(* the session is left as it was; a session that is active keeps its       *)
(* source and advertised tags until it is destroyed.                       *)
C14_NoReentrantDrag ==
    [][/\ (report'.op = "startDrag" /\ session.state # "Idle") =>
             /\ report'.result = "InvalidOperation"
             /\ UNCHANGED <<session, queue, notified>>
       /\ (session.state # "Idle" /\ session'.state # "Idle") =>
             /\ session'.source = session.source
             /\ session'.id = session.id
             /\ session'.available = session.available
       /\ (session.state = "Idle" /\ session'.state # "Idle") =>
             (report'.op = "startDrag" /\ report'.result = "Ok")]_vars

\* a second drag was refused while a nav item was being dragged
C14_Witness ==
    /\ report.op = "startDrag"
    /\ report.result = "InvalidOperation"
    /\ session.state = "Dragging"
    /\ session.source = "nav"

(* C15: SourceFinished and SourceCancelled are handled only for a session  *)
(* that was started and has ended (Dropped or Cancelled), every session    *)
(* that notified SourceStarted ends with exactly one of the two, and       *)
(* hover, requestPayload and drop act only within a session.               *)
C15_DragLifecycle ==
    /\ session.state \in {"Idle", "Dragging", "Dropped", "Cancelled"}
    /\ last.kind \in {"SourceFinished", "SourceCancelled"} =>
          session.state \in {"Dropped", "Cancelled"}
    /\ "SourceStarted" \in Range(notified) => EndNotifications <= 1
    /\ ("SourceStarted" \in Range(notified) /\ session.state = "Idle") =>
          EndNotifications = 1
    /\ (report.op \in {"hover", "requestPayload", "drop"}
          /\ report.result # "InvalidOperation") =>
          session.state \in {"Dragging", "Dropped"}

(* C16: a drop on the drop zone whose tag the zone does not accept reaches *)
(* the closure as no data: SourceCancelled is produced instead of          *)
(* ZoneDropped and dropped_text keeps its value; dropped_text changes only *)
(* on a drop negotiated as "text/plain", and a Cancelled session delivers  *)
(* no payload.                                                             *)
C16_Inv ==
    /\ (session.state = "Dropped" /\ session.dest = "zone"
          /\ "text/plain" \notin session.available) =>
          /\ session.data = {}
          /\ ~InQueue("ZoneDropped")
          /\ last.kind # "ZoneDropped"
          /\ InQueue("SourceCancelled") \/ "SourceCancelled" \in Range(notified)
    /\ (InQueue("ZoneDropped") \/ last.kind = "ZoneDropped") =>
          /\ session.state = "Dropped"
          /\ session.dest = "zone"
          /\ "text/plain" \in session.available
          /\ session.data # {}
    /\ session.state = "Cancelled" =>
          /\ session.data = {}
          /\ ~InQueue("ZoneDropped")
          /\ last.kind # "ZoneDropped"

C16_Step ==
    dropped_text' # dropped_text =>
        /\ session.state = "Dropped"
        /\ session.dest = "zone"
        /\ "text/plain" \in session.available
        /\ last'.kind = "ZoneDropped"
        /\ dropped_text' = "Dropped: " \o (CHOOSE d \in session.data : TRUE)

C16_TypeMismatchIsNoData == []C16_Inv /\ [][C16_Step]_vars

\* a nav item was dropped on the drop zone and the closure's
\* SourceCancelled was handled
C16_Witness ==
    /\ session.state = "Dropped"
    /\ session.dest = "zone"
    /\ session.source = "nav"
    /\ last.kind = "SourceCancelled"
    /\ dropped_text = "Drop something here!"

(* C17: every nav item advertises the reorder tag when dragged and the nav *)
(* bar accepts exactly that tag, so a NavReorder is dispatched only for a  *)
(* drag that carries it; the tag differs from "text/plain", a drag from    *)
(* the text source never changes the nav model and a nav item drag never   *)
(* changes dropped_text.                                                   *)
C17_Inv ==
    /\ NAV_ITEM_MIME # "text/plain"
    /\ NavItemMime_allowed = {NAV_ITEM_MIME}
    /\ NavItemMime_allowed \cap DndText_allowed = {}
    /\ \A id \in Ids : {p.mime : p \in enable_tab_drag(id)} = {NAV_ITEM_MIME}
    /\ session.source = "nav" => NAV_ITEM_MIME \in session.available
    /\ session.source = "text" => NAV_ITEM_MIME \notin session.available
    /\ (InQueue("NavReorder") \/ last.kind = "NavReorder") =>
          /\ session.state = "Dropped"
          /\ session.dest = "nav"
          /\ session.source = "nav"
          /\ NAV_ITEM_MIME \in session.available

C17_Step ==
    /\ session.source = "text" => nav_model' = nav_model
    /\ session.source = "nav" => dropped_text' = dropped_text
    /\ nav_model' # nav_model => last'.kind = "NavReorder"

C17_ReorderGatedByTag == []C17_Inv /\ [][C17_Step]_vars

\* a dragged nav item was dropped on the nav bar and the order changed
C17_Witness ==
    /\ last.kind = "NavReorder"
    /\ session.state = "Dropped"
    /\ session.source = "nav"
    /\ order # pre.order
    /\ dropped_text = "Dropped: Hello from source!"

(* C19: handling SourceStarted, SourceFinished, SourceCancelled or         *)
(* ZoneHovered leaves the nav model, dropped_text, the title and the drag  *)
(* session unchanged; ZoneDropped changes dropped_text only; Delete,       *)
(* MoveUp, MoveDown, NavReorder and nav-select never change dropped_text.  *)
C19_Step ==
    /\ last'.kind \in {"SourceStarted", "SourceFinished", "SourceCancelled",
                       "ZoneHovered"} =>
          UNCHANGED <<nav_model, dropped_text, header_title, session>>
    /\ last'.kind = "ZoneDropped" =>
          /\ UNCHANGED <<nav_model, header_title, session>>
          /\ dropped_text' = "Dropped: " \o last'.data
    /\ last'.kind \in {"Delete", "MoveUp", "MoveDown", "NavReorder", "NavSelect"} =>
          UNCHANGED dropped_text

C19_HandlersFrame == [][C19_Step]_vars

\* a cancel was notified after a drop had changed the text and an entry had
\* been deleted
C19_Witness ==
    /\ last.kind = "SourceCancelled"
    /\ session.state = "Cancelled"
    /\ dropped_text = "Dropped: Hello from source!"
    /\ Len(order) = 3

====
